---------------------------- MODULE Spec2Model ----------------------------
(***************************************************************************)
(* A model of TorControl (src/index.js): one TorControl instance, the      *)
(* sockets net.connect hands it, the listeners the code registers on them, *)
(* and a control server on the other side of each socket.                  *)
(*                                                                         *)
(* Text is a sequence of one-character strings; "CR" and "LF" stand for    *)
(* the carriage return and the line feed.                                  *)
(***************************************************************************)
EXTENDS Integers, Sequences, FiniteSets, TLC

\* ------------------------------------------------------------------ bounds

\* Caller operations (sendCommand, connect, disconnect, setPersistent) issued
\* on the instance in one behaviour.
MaxOps == 3

\* Lines of a reply text drawn for the reply parser.
MaxLines == 2

\* ------------------------------------------------------------------- text

CR == "CR"
LF == "LF"

Min(a, b) == IF a < b THEN a ELSE b

\* String.prototype.substr(start) with start = n: the text after its first n
\* characters, empty when it has no more than n.
Substr(data, n) == SubSeq(data, n + 1, Len(data))

\* String.prototype.substr(0, n): the first n characters, or all of them.
Prefix(data, n) == SubSeq(data, 1, Min(n, Len(data)))

\* Whether pat occurs in data at position p.
MatchAt(data, p, pat) ==
    /\ p + Len(pat) - 1 <= Len(data)
    /\ SubSeq(data, p, p + Len(pat) - 1) = pat

OK250 == <<"2", "5", "0", " ", "O", "K">>

\* /250 OK\r?\n/.test(data): an unanchored search.
Test250OK(data) ==
    \E p \in 1..Len(data) :
        \/ MatchAt(data, p, OK250 \o <<LF>>)
        \/ MatchAt(data, p, OK250 \o <<CR, LF>>)

\* data.split(/\r?\n/): cut at every line feed, dropping a carriage return
\* right before it; the text after the last line feed is the last element
\* (empty when the text ends with a line feed).
RECURSIVE SplitLines(_)
SplitLines(data) ==
    IF \A p \in 1..Len(data) : data[p] # LF
    THEN <<data>>
    ELSE LET n == CHOOSE p \in 1..Len(data) :
                      /\ data[p] = LF
                      /\ \A q \in 1..(p - 1) : data[q] # LF
             e == IF n > 1 /\ data[n - 1] = CR THEN n - 2 ELSE n - 1
         IN  <<SubSeq(data, 1, e)>> \o SplitLines(SubSeq(data, n + 1, Len(data)))

\* The same as it would be if substr(4) were applied to every line.
StripPrefix_Always(line) == Substr(line, 4)

\* /^250./.test(line) ? line.substr(4) : line   ('.' matches no line break)
StripPrefix(line) ==
    IF /\ Len(line) >= 4
       /\ SubSeq(line, 1, 3) = <<"2", "5", "0">>
       /\ line[4] \notin {CR, LF}
    THEN Substr(line, 4)
    ELSE line

RECURSIVE MapStrip(_)
MapStrip(arr) ==
    IF arr = <<>> THEN <<>>
    ELSE (IF Head(arr) # <<>> THEN <<StripPrefix(Head(arr))>> ELSE <<>>)
         \o MapStrip(Tail(arr))

\* The loop that fills messages: one entry per non-empty element of arr.
Messages(data) == MapStrip(SplitLines(data))

Digits == <<"0", "1", "2", "3", "4", "5", "6", "7", "8", "9">>
IsDigit(c) == \E d \in 1..10 : Digits[d] = c
DigitVal(c) == (CHOOSE d \in 1..10 : Digits[d] = c) - 1
NaN == "NaN"

RECURSIVE DigitsValue(_, _)
DigitsValue(s, acc) ==
    IF s = <<>> \/ ~IsDigit(Head(s)) THEN acc
    ELSE DigitsValue(Tail(s), 10 * acc + DigitVal(Head(s)))

RECURSIVE SkipSpace(_)
SkipSpace(s) ==
    IF s # <<>> /\ Head(s) \in {" ", CR, LF} THEN SkipSpace(Tail(s)) ELSE s

\* parseInt(s, 10): leading white space skipped, an optional sign, then the
\* longest run of digits; NaN when there is no digit.
ParseInt(s) ==
    LET t == SkipSpace(s)
        neg == t # <<>> /\ Head(t) = "-"
        u == IF t # <<>> /\ Head(t) \in {"-", "+"} THEN Tail(t) ELSE t
    IN  IF u = <<>> \/ ~IsDigit(Head(u)) THEN NaN
        ELSE IF neg THEN 0 - DigitsValue(u, 0) ELSE DigitsValue(u, 0)

NoValue == <<>>

\* What the reply callback hands to cb for the text data: (null, {code: 250,
\* messages, data}) or (Error(data), {code, message, data}).
ParseReply(data) ==
    IF Test250OK(data)
    THEN [err |-> "none", code |-> 250, messages |-> Messages(data),
          message |-> NoValue, data |-> data]
    ELSE [err |-> "reply", code |-> ParseInt(Prefix(data, 3)),
          messages |-> NoValue, message |-> Substr(data, 4), data |-> data]


\* ------------------------------------------------------------------ state

VARIABLES
    connection,   \* this.connection: 0 for null, else the index of a socket
    persistent,   \* opts.persistent
    socks,        \* the sockets net.connect has returned, in creation order
    ops           \* the caller's operations so far, with what their callbacks got

vars == <<connection, persistent, socks, ops>>

\* The program state as one value, so that a handler is a function on it.
State == [connection |-> connection, persistent |-> persistent,
          socks |-> socks, ops |-> ops]

Commit(st) ==
    /\ connection' = st.connection
    /\ persistent' = st.persistent
    /\ socks' = st.socks
    /\ ops' = st.ops

\* What the code writes: 'AUTHENTICATE "<password>"\r\n', command + '\r\n'
\* (of operation op) and 'QUIT\r\n'.
AuthWrite == [cmd |-> "AUTHENTICATE", op |-> 0]
QuitWrite == [cmd |-> "QUIT", op |-> 0]
CommandWrite(i) == [cmd |-> "COMMAND", op |-> i]

\* The listeners the code registers, by the place that registers them.
ConnErrListener(i) == [kind |-> "connError", once |-> TRUE, op |-> i]
PipeDataListener == [kind |-> "pipeData", once |-> FALSE, op |-> 0]
PipeEndListener == [kind |-> "pipeEnd", once |-> FALSE, op |-> 0]
AuthListener(i) == [kind |-> "authData", once |-> TRUE, op |-> i]
ReplyListener(i) == [kind |-> "replyData", once |-> TRUE, op |-> i]
DisconnectListener(i) == [kind |-> "disconnectEnd", once |-> TRUE, op |-> i]

\* A socket as net.connect returns it, with nothing registered or written.
\* status: open, halfclosed (end() was called on it), ended (the peer's end of
\* stream was emitted) or dead (it reported an error and was destroyed).
\* sent counts the writes that reached the peer; auth, answered, rest and
\* closing are the peer's side: how AUTHENTICATE was answered, how many writes
\* it has answered, the chunks of its current reply still to arrive, and
\* whether it has answered a QUIT.
NewSocket ==
    [status |-> "open", onError |-> <<>>, onData |-> <<>>, onEnd |-> <<>>,
     written |-> <<>>, sent |-> 0, auth |-> "none", answered |-> 0,
     rest |-> <<>>, closing |-> FALSE]

\* A caller operation. opened: the socket its connect created (0: none);
\* wrote: the socket its command was written on (0: not written), authAtWrite
\* how that socket's AUTHENTICATE stood then; data: the chunk its reply
\* listener was given; the ...AtReply fields record the moment that listener
\* ran; cbs: every invocation of its callback, in order.
NewOp(kind, flag) ==
    [kind |-> kind, flag |-> flag, opened |-> 0, wrote |-> 0,
     authAtWrite |-> "none", replied |-> FALSE, data |-> NoValue,
     persistAtReply |-> FALSE, connAtReply |-> 0, wlenAtReply |-> 0,
     quitAtReply |-> FALSE, connAfterReply |-> 0, cbs |-> <<>>]

\* The QUIT writes made so far, as (socket, position) pairs.
QuitWrites(st) ==
    UNION {{<<s, k>> : k \in {j \in 1..Len(st.socks[s].written) :
                                 st.socks[s].written[j].cmd = "QUIT"}} :
           s \in 1..Len(st.socks)}

\* socket.write(w): the write reaches the peer only while the socket is open.
SocketWrite(st, s, w) ==
    [st EXCEPT !.socks[s].written = Append(@, w),
               !.socks[s].sent = IF st.socks[s].status = "open" THEN @ + 1 ELSE @]

OnData(st, s, l) == [st EXCEPT !.socks[s].onData = Append(@, l)]
OnEnd(st, s, l) == [st EXCEPT !.socks[s].onEnd = Append(@, l)]
OnError(st, s, l) == [st EXCEPT !.socks[s].onError = Append(@, l)]

\* The callback of operation i is invoked with res; conn and quitSince record
\* this.connection at that moment and whether QUIT was written on the socket of
\* its command since its reply listener ran.
InvokeCb(st, i, res) ==
    LET o == st.ops[i]
        since == /\ o.replied
                 /\ o.wrote # 0
                 /\ \E k \in (o.wlenAtReply + 1)..Len(st.socks[o.wrote].written) :
                        st.socks[o.wrote].written[k].cmd = "QUIT"
    IN  [st EXCEPT !.ops[i].cbs =
            Append(@, [conn |-> st.connection, quitSince |-> since] @@ res)]

PlainResult(err, arg) ==
    [err |-> err, code |-> NoValue, messages |-> NoValue, message |-> NoValue,
     data |-> NoValue, arg |-> arg]

\* The function sendCommand passes to tryDisconnect: parse data, call cb.
ReplyCallback(st, i) ==
    InvokeCb(st, i, ParseReply(st.ops[i].data) @@ [arg |-> 0])

\* disconnect's cb(): of a disconnect operation, the caller's callback; of a
\* sendCommand, the function it passed to tryDisconnect.
DisconnectCb(st, i) ==
    IF st.ops[i].kind = "send"
    THEN ReplyCallback(st, i)
    ELSE InvokeCb(st, i, PlainResult("none", 0))

\* disconnect as it would be if it returned without calling cb when there is
\* no connection.
disconnect_SilentWhenClosed(st, i, force) ==
    IF st.connection = 0
    THEN st
    ELSE LET s == st.connection
             st1 == OnEnd(st, s, DisconnectListener(i))
         IN  IF force
             THEN [st1 EXCEPT !.socks[s].status =
                                  IF @ = "open" THEN "halfclosed" ELSE @]
             ELSE SocketWrite(st1, s, QuitWrite)

\* disconnect as it would be if it called cb when it returns instead of
\* registering it for 'end'.
disconnect_CallsBackAtOnce(st, i, force) ==
    IF st.connection = 0
    THEN DisconnectCb(st, i)
    ELSE LET s == st.connection
             st1 == DisconnectCb(st, i)
         IN  IF force
             THEN [st1 EXCEPT !.socks[s].status =
                                  IF @ = "open" THEN "halfclosed" ELSE @]
             ELSE SocketWrite(st1, s, QuitWrite)

\* disconnect as it would be if it registered cb and wrote no QUIT.
disconnect_NoQuit(st, i, force) ==
    IF st.connection = 0
    THEN DisconnectCb(st, i)
    ELSE OnEnd(st, st.connection, DisconnectListener(i))

\* this.disconnect(cb, force), cb belonging to operation i.
disconnectTorControl(st, i, force) ==
    IF st.connection = 0
    THEN DisconnectCb(st, i)
    ELSE LET s == st.connection
             st1 == OnEnd(st, s, DisconnectListener(i))
         IN  IF force
             THEN [st1 EXCEPT !.socks[s].status =
                                  IF @ = "open" THEN "halfclosed" ELSE @]
             ELSE SocketWrite(st1, s, QuitWrite)

\* tryDisconnect as it would be if it did not look at keepConnection.
tryDisconnect_IgnoresKeep(st, i) ==
    IF st.persistent \/ st.connection = 0
    THEN ReplyCallback(st, i)
    ELSE disconnectTorControl(st, i, FALSE)

\* tryDisconnect(callback) of sendCommand operation i (flag: keepConnection).
tryDisconnect(st, i) ==
    IF st.ops[i].flag \/ st.persistent \/ st.connection = 0
    THEN ReplyCallback(st, i)
    ELSE disconnectTorControl(st, i, FALSE)

\* The once('data') listener of sendCommand operation i, given chunk.
ReplyData(st, i, chunk) ==
    LET st1 == [st EXCEPT !.ops[i].replied = TRUE,
                          !.ops[i].data = chunk,
                          !.ops[i].persistAtReply = st.persistent,
                          !.ops[i].connAtReply = st.connection,
                          !.ops[i].wlenAtReply =
                              Len(st.socks[st.ops[i].wrote].written)]
        st2 == tryDisconnect(st1, i)
    IN  [st2 EXCEPT !.ops[i].quitAtReply = QuitWrites(st2) # QuitWrites(st1),
                    !.ops[i].connAfterReply = st2.connection]

\* The function sendCommand passes to connect, called with (err, conn).
SendConnected(st, i, err, conn) ==
    IF err # "none"
    THEN InvokeCb(st, i, PlainResult(err, 0))
    ELSE LET st1 == OnData(st, conn, ReplyListener(i))
             st2 == SocketWrite(st1, conn, CommandWrite(i))
         IN  [st2 EXCEPT !.ops[i].wrote = conn,
                         !.ops[i].authAtWrite = st.socks[conn].auth]

\* connect's cb(err, conn): of a connect operation, the caller's callback; of a
\* sendCommand, the function it passed to connect.
ConnectCb(st, i, err, conn) ==
    IF st.ops[i].kind = "send"
    THEN SendConnected(st, i, err, conn)
    ELSE InvokeCb(st, i, PlainResult(err, conn))

\* connect as it would be if it did not look for an installed connection.
connect_AlwaysOpens(st, i) ==
    LET s == Len(st.socks) + 1
        st1 == [st EXCEPT !.socks = Append(@, NewSocket),
                          !.connection = s,
                          !.ops[i].opened = s]
        st2 == OnError(st1, s, ConnErrListener(i))
        st3 == OnData(st2, s, PipeDataListener)
        st4 == OnEnd(st3, s, PipeEndListener)
        st5 == OnData(st4, s, AuthListener(i))
    IN  SocketWrite(st5, s, AuthWrite)

\* connect as it would be if, with no connection installed, it took up the
\* transport of the previous connection again instead of creating one.
connect_ReusesTransport(st, i) ==
    IF st.connection # 0
    THEN ConnectCb(st, i, "none", st.connection)
    ELSE LET s == IF st.socks = <<>> THEN 1 ELSE Len(st.socks)
             st1 == [st EXCEPT !.socks = IF @ = <<>> THEN <<NewSocket>> ELSE @,
                               !.connection = s,
                               !.ops[i].opened = s]
             st2 == OnError(st1, s, ConnErrListener(i))
             st3 == OnData(st2, s, PipeDataListener)
             st4 == OnEnd(st3, s, PipeEndListener)
             st5 == OnData(st4, s, AuthListener(i))
         IN  SocketWrite(st5, s, AuthWrite)

\* this.connect(params, cb), cb belonging to operation i.
connectTorControl(st, i) ==
    IF st.connection # 0
    THEN ConnectCb(st, i, "none", st.connection)
    ELSE LET s == Len(st.socks) + 1
             st1 == [st EXCEPT !.socks = Append(@, NewSocket),
                               !.connection = s,
                               !.ops[i].opened = s]
             st2 == OnError(st1, s, ConnErrListener(i))
             st3 == OnData(st2, s, PipeDataListener)
             st4 == OnEnd(st3, s, PipeEndListener)
             st5 == OnData(st4, s, AuthListener(i))
         IN  SocketWrite(st5, s, AuthWrite)

\* The once('data') listener of connect as it would be if it took any first
\* chunk for a success.
AuthData_AcceptsAny(st, i, chunk) == ConnectCb(st, i, "none", st.connection)

\* The once('data') listener of connect, given chunk.
AuthData(st, i, chunk) ==
    IF Prefix(chunk, 3) = <<"2", "5", "0">>
    THEN ConnectCb(st, i, "none", st.connection)
    ELSE ConnectCb(st, i, "auth", 0)

\* The on('end') listener of connect as it would be if it left
\* this.connection alone.
PipeEnd_KeepsConnection(st) == st

\* The on('end') listener of connect (self.emit('end') has no listener here).
PipeEnd(st) == [st EXCEPT !.connection = 0]

\* The once('error') listener of connect as it would be if it dropped the
\* error.
ConnError_Silent(st, i) == st

\* The once('error') listener of connect, cb belonging to operation i:
\* cb(new Error("Error connecting to control port: " + err)).
ConnError(st, i) == ConnectCb(st, i, "conn", 0)

\* One listener of socket s run for the event it is registered on.
RunListener(st, s, l, chunk) ==
    CASE l.kind = "pipeData" -> st
      [] l.kind = "authData" -> AuthData(st, l.op, chunk)
      [] l.kind = "replyData" -> ReplyData(st, l.op, chunk)
      [] l.kind = "pipeEnd" -> PipeEnd(st)
      [] l.kind = "disconnectEnd" -> DisconnectCb(st, l.op)
      [] l.kind = "connError" -> ConnError(st, l.op)

RECURSIVE RunListeners(_, _, _, _)
RunListeners(st, s, ls, chunk) ==
    IF ls = <<>> THEN st
    ELSE RunListeners(RunListener(st, s, Head(ls), chunk), s, Tail(ls), chunk)

Persistent(l) == ~l.once

\* emit: the listeners registered when the event fires run in registration
\* order, the once-listeners among them being removed; a listener added by one
\* of them is not run for this event.
EmitData(st, s, chunk) ==
    LET ls == st.socks[s].onData
    IN  RunListeners([st EXCEPT !.socks[s].onData = SelectSeq(ls, Persistent)],
                     s, ls, chunk)

EmitEnd(st, s) ==
    LET ls == st.socks[s].onEnd
    IN  RunListeners([st EXCEPT !.socks[s].onEnd = SelectSeq(ls, Persistent)],
                     s, ls, NoValue)

EmitError(st, s) ==
    LET ls == st.socks[s].onError
    IN  RunListeners([st EXCEPT !.socks[s].onError = SelectSeq(ls, Persistent)],
                     s, ls, NoValue)


\* ------------------------------------------------------------- the server

RECURSIVE Concat(_)
Concat(chunks) ==
    IF chunks = <<>> THEN <<>> ELSE Head(chunks) \o Concat(Tail(chunks))

CRLF == <<CR, LF>>
ReplyOK == OK250 \o CRLF                               \* "250 OK\r\n"
LineV == <<"2", "5", "0", "-", "v">> \o CRLF           \* "250-v\r\n"
AuthFail == <<"5", "1", "5", " ", "x">> \o CRLF        \* "515 x\r\n"
QuitReply == <<"2", "5", "0", " ", "c">> \o CRLF       \* "250 c\r\n"

\* What the server may answer to a write, as the chunks it arrives in: a
\* command is answered "250 OK" in one chunk, or "250-v", "250 OK" in two.
RepliesTo(w) ==
    CASE w.cmd = "AUTHENTICATE" -> {<<ReplyOK>>, <<AuthFail>>}
      [] w.cmd = "QUIT" -> {<<QuitReply>>}
      [] w.cmd = "COMMAND" -> {<<ReplyOK>>, <<LineV, ReplyOK>>}

\* The lines a reply text is drawn from for the reply parser.
ReplyLines ==
    { OK250,                                     \* "250 OK"
      <<"2", "5", "0", "-", "v">>,               \* "250-v"
      <<"2", "5", "0">>,                         \* "250"
      <<"2", "5", "0", CR, "v">>,                \* "250", a lone CR, "v"
      <<"5", "5", "2", " ", "x">>,               \* "552 x"
      <<"5", "5", "2", " ">> \o OK250,           \* "552 250 OK"
      <<"v">>,                                   \* a data line
      <<>> }                                     \* an empty line

\* lines joined, each followed by the line break eol.
RECURSIVE JoinLines(_, _)
JoinLines(lines, eol) ==
    IF lines = <<>> THEN <<>>
    ELSE Head(lines) \o eol \o JoinLines(Tail(lines), eol)

\* Reply texts of 1..MaxLines lines, broken by CR LF or by LF alone.
ReplyTexts ==
    UNION { { JoinLines(ls, eol) : ls \in [1..n -> ReplyLines], eol \in {CRLF, <<LF>>} }
          : n \in 1..MaxLines }

\* The server of the reply parser's scenarios: it accepts the password and
\* answers a command with any reply text, in one chunk.
ParseRepliesTo(w) ==
    CASE w.cmd = "AUTHENTICATE" -> {<<ReplyOK>>}
      [] w.cmd = "QUIT" -> {<<QuitReply>>}
      [] w.cmd = "COMMAND" -> {<<text>> : text \in ReplyTexts}

Sockets == 1..Len(socks)
Alive(s) == socks[s].status \in {"open", "halfclosed"}

\* ---------------------------------------------------------------- actions

Init ==
    /\ connection = 0
    /\ persistent \in BOOLEAN
    /\ socks = <<>>
    /\ ops = <<>>

NextOp == Len(ops) + 1

Issue(kind, flag) == [State EXCEPT !.ops = Append(@, NewOp(kind, flag))]

\* control.sendCommand(command, cb, keepConnection)
SendCommand ==
    /\ Len(ops) < MaxOps
    /\ \E keepConnection \in BOOLEAN :
          Commit(connectTorControl(Issue("send", keepConnection), NextOp))

\* control.connect(null, cb)
Connect ==
    /\ Len(ops) < MaxOps
    /\ Commit(connectTorControl(Issue("connect", FALSE), NextOp))

\* control.disconnect(cb, force)
Disconnect ==
    /\ Len(ops) < MaxOps
    /\ \E force \in BOOLEAN :
          Commit(disconnectTorControl(Issue("disconnect", force), NextOp, force))

\* control.setPersistent(value); a call that passes the value opts.persistent
\* already has changes nothing and is left out.
SetPersistent ==
    /\ Len(ops) < MaxOps
    /\ \E value \in BOOLEAN \ {persistent} :
          Commit([Issue("setPersistent", value) EXCEPT !.persistent = value])

\* The server can answer a write on socket s: it has received one it has not
\* answered, and is not in the middle of an answer or closing.
CanAnswer(s) ==
    /\ Alive(s)
    /\ socks[s].rest = <<>>
    /\ ~socks[s].closing
    /\ socks[s].answered < socks[s].sent

NextWrite(s) == socks[s].written[socks[s].answered + 1]

\* The server answers the next write on socket s with the chunks r; the first
\* chunk arrives and 'data' is emitted with it.
Answer(s, r) ==
    LET w == NextWrite(s)
        st1 == [State EXCEPT
                   !.socks[s].answered = @ + 1,
                   !.socks[s].rest = Tail(r),
                   !.socks[s].closing = (w.cmd = "QUIT"),
                   !.socks[s].auth =
                       IF w.cmd # "AUTHENTICATE" THEN @
                       ELSE IF r = <<ReplyOK>> THEN "ok" ELSE "fail"]
    IN  Commit(EmitData(st1, s, Head(r)))

ServerReply ==
    \E s \in Sockets :
        /\ CanAnswer(s)
        /\ \E r \in RepliesTo(NextWrite(s)) : Answer(s, r)

\* The next chunk of the server's current answer arrives on socket s.
ServerRest ==
    \E s \in Sockets :
        /\ Alive(s)
        /\ socks[s].rest # <<>>
        /\ LET st1 == [State EXCEPT !.socks[s].rest = Tail(@)]
           IN  Commit(EmitData(st1, s, Head(socks[s].rest)))

\* The server ends its side of socket s: 'end' is emitted.
ServerEnd ==
    \E s \in Sockets :
        /\ Alive(s)
        /\ socks[s].rest = <<>>
        /\ Commit(EmitEnd([State EXCEPT !.socks[s].status = "ended"], s))

\* Socket s fails: 'error' is emitted and the socket is destroyed.
SocketError ==
    \E s \in Sockets :
        /\ Alive(s)
        /\ Commit(EmitError([State EXCEPT !.socks[s].status = "dead",
                                          !.socks[s].rest = <<>>], s))

Next ==
    \/ SendCommand
    \/ Connect
    \/ Disconnect
    \/ SetPersistent
    \/ ServerReply
    \/ ServerRest
    \/ ServerEnd
    \/ SocketError

Spec == Init /\ [][Next]_vars

\* The calls of the caller.
Call == SendCommand \/ Connect \/ Disconnect \/ SetPersistent

\* ENABLED <<ServerReply>>_vars and ENABLED <<ServerRest>>_vars written out:
\* every write has an answer, and a delivery changes socks.
ReplyDue == \E s \in Sockets : CanAnswer(s)
RestDue == \E s \in Sockets : Alive(s) /\ socks[s].rest # <<>>

\* Weak fairness of ServerReply and of ServerRest, the deliveries of data: a
\* chunk that is due is delivered, and 'data' emitted, after finitely many
\* other steps.
FairReply == []<>(~ReplyDue) \/ []<><<ServerReply>>_vars
FairRest == []<>(~RestDue) \/ []<><<ServerRest>>_vars

\* The program against a peer that keeps its side of every stream open and
\* whose sockets do not fail: the events that are left are delivered, and the
\* caller makes its calls, as long as any is possible.
NextPeerOpen ==
    \/ SendCommand
    \/ Connect
    \/ Disconnect
    \/ SetPersistent
    \/ ServerReply
    \/ ServerRest

SpecPeerOpen ==
    Init /\ [][NextPeerOpen]_vars /\ WF_vars(Call) /\ FairReply /\ FairRest

\* ENABLED <<ServerEnd>>_vars written out, and weak fairness of ServerEnd: the
\* peer ends a stream it has nothing more to send on.
EndDue == \E s \in Sockets : Alive(s) /\ socks[s].rest = <<>>
FairEnd == []<>(~EndDue) \/ []<><<ServerEnd>>_vars

\* The program with fair delivery of the socket events: data that is due is
\* delivered, every stream is ended by the peer unless it fails first, and the
\* caller makes its calls as long as any is possible.
SpecFair ==
    Init /\ [][Next]_vars /\ WF_vars(Call) /\ FairReply /\ FairRest /\ FairEnd

\* The reply parser's scenarios: one sendCommand on a new instance, against a
\* server that accepts the password, answers the command with any reply text
\* in one chunk, and ends the stream when it pleases.
FirstSendCommand ==
    /\ ops = <<>>
    /\ SendCommand

ParseServerReply ==
    \E s \in Sockets :
        /\ CanAnswer(s)
        /\ \E r \in ParseRepliesTo(NextWrite(s)) : Answer(s, r)

NextParse ==
    \/ FirstSendCommand
    \/ ParseServerReply
    \/ ServerEnd

SpecParse == Init /\ [][NextParse]_vars



\* ----------------------------------------------------------------- claims

Ops == 1..Len(ops)
Sends == {i \in Ops : ops[i].kind = "send"}

\* The invocations of operation i's callback.
Calls(i) == {ops[i].cbs[k] : k \in 1..Len(ops[i].cbs)}

\* Those made by the reply callback: with a parsed reply, success or error.
ReplyCalls(i) == {c \in Calls(i) : c.err \in {"none", "reply"}}

\* Those that report a failed open.
OpenFailures(i) == {c \in Calls(i) : c.err \in {"auth", "conn"}}

\* Operation i decided on its reply with persistent false and no
\* keepConnection, on an installed connection.
ClosesAfterReply(i) ==
    /\ ops[i].replied
    /\ ~ops[i].flag
    /\ ~ops[i].persistAtReply
    /\ ops[i].connAtReply # 0

\* C1: every command is written only after the AUTHENTICATE written on the
\* same socket has been answered with a success status.
C1_CommandAfterAuthSuccess ==
    \A i \in Sends : ops[i].wrote # 0 => ops[i].authAtWrite = "ok"

\* A command is pending on a live socket: written, its reply listener not
\* yet run.
Pending(i) ==
    /\ ops[i].wrote # 0
    /\ ~ops[i].replied
    /\ Alive(ops[i].wrote)

\* C2: at most one command is pending at any time.
C2_AtMostOnePending ==
    Cardinality({i \in Sends : Pending(i)}) <= 1

\* C3: with persistent false and no keepConnection, the callback of a
\* sendCommand whose reply arrived on an installed connection is invoked only
\* after a QUIT written after the reply.
C3_QuitBeforeCallback ==
    \A i \in Sends : ClosesAfterReply(i) => \A c \in Calls(i) : c.quitSince

C3_Witness ==
    \E i \in Sends :
        /\ ClosesAfterReply(i)
        /\ \E c \in ReplyCalls(i) : c.err = "none" /\ c.quitSince

\* C4: with persistent false and no keepConnection, this.connection is null
\* when the callback is invoked with the reply.
C4_ConnectionNullAtCallback ==
    \A i \in Sends : ClosesAfterReply(i) => \A c \in ReplyCalls(i) : c.conn = 0

C4_Witness ==
    \E i \in Sends :
        /\ ClosesAfterReply(i)
        /\ \E c \in ReplyCalls(i) : c.err = "none" /\ c.conn = 0

\* C5: when the reply is received, QUIT is written exactly when keepConnection
\* is not true, persistent is false and a connection is installed; with
\* persistent or keepConnection true no QUIT is written and the connection
\* stays installed.
C5_QuitExactlyWhenNotKept ==
    \A i \in Sends :
        ops[i].replied =>
            /\ ops[i].quitAtReply <=>
                  (~ops[i].flag /\ ~ops[i].persistAtReply /\ ops[i].connAtReply # 0)
            /\ (ops[i].flag \/ ops[i].persistAtReply) =>
                  (~ops[i].quitAtReply /\ ops[i].connAfterReply # 0)

C5_Witness ==
    /\ \E i \in Sends :
          /\ ops[i].replied /\ ops[i].flag /\ ~ops[i].persistAtReply
          /\ ~ops[i].quitAtReply /\ ops[i].connAfterReply # 0
    /\ \E i \in Sends : ops[i].replied /\ ops[i].quitAtReply

\* The open that sendCommand operation i started has failed: its AUTHENTICATE
\* was answered without a success status, or its socket reported an error
\* before any answer.
OpenFailed(i) ==
    /\ ops[i].opened # 0
    /\ \/ socks[ops[i].opened].auth = "fail"
       \/ socks[ops[i].opened].auth = "none" /\ socks[ops[i].opened].status = "dead"

\* C6: when the open of a sendCommand fails, its callback receives that
\* failure as its error and its command is never written.
C6_FailedOpenReported ==
    \A i \in Sends :
        OpenFailed(i) =>
            /\ ops[i].cbs # <<>>
            /\ ops[i].cbs[1].err =
                  (IF socks[ops[i].opened].auth = "fail" THEN "auth" ELSE "conn")
            /\ ops[i].wrote = 0
            /\ \A s \in Sockets : \A k \in 1..Len(socks[s].written) :
                  socks[s].written[k] # CommandWrite(i)

C6_Witness ==
    \E i \in Sends :
        /\ OpenFailed(i)
        /\ socks[ops[i].opened].auth = "fail"
        /\ ops[i].cbs # <<>>
        /\ ops[i].cbs[1].err = "auth"

\* C7: when a failed open is reported, this.connection is null.
C7_NoConnectionAfterFailedOpen ==
    \A i \in Ops : \A c \in OpenFailures(i) : c.conn = 0

\* What cb is handed for the text data, without the record of the moment.
Delivered(c) ==
    [err |-> c.err, code |-> c.code, messages |-> c.messages,
     message |-> c.message, data |-> c.data]

\* The server's latest answer on socket s is its answer to the command of
\* operation i.
AnsweringCommandOf(s, i) ==
    /\ socks[s].answered > 0
    /\ socks[s].written[socks[s].answered] = CommandWrite(i)

\* C8: however the reply is split into chunks, the callback gets what it gets
\* when the reply arrives in one chunk: the result for the whole reply, the
\* chunk its listener was given and the chunks still to arrive (stated for a
\* sendCommand that is the only operation on the instance).
C8_ChunkingInvisible ==
    (/\ Len(ops) = 1
     /\ ops[1].kind = "send"
     /\ ops[1].replied
     /\ AnsweringCommandOf(ops[1].wrote, 1))
        => \A c \in ReplyCalls(1) :
              Delivered(c) =
                  ParseReply(ops[1].data \o Concat(socks[ops[1].wrote].rest))

\* The reply's lines, read off the text by position: a line starts at the
\* text's first character and after every line feed, and runs up to the next
\* line feed, less the carriage return before it.
LineStart(d, p) == p \in 1..Len(d) /\ (p = 1 \/ d[p - 1] = LF)

LineEnd(d, p) ==
    LET feeds == {q \in p..Len(d) : d[q] = LF}
    IN  IF feeds = {} THEN Len(d)
        ELSE LET q == CHOOSE x \in feeds : \A y \in feeds : x <= y
             IN  IF q - 1 >= p /\ d[q - 1] = CR THEN q - 2 ELSE q - 1

TextLine(d, p) == SubSeq(d, p, LineEnd(d, p))

NonEmptyLineStarts(d) == {p \in 1..Len(d) : LineStart(d, p) /\ TextLine(d, p) # <<>>}

\* The k-th non-empty line of d.
NonEmptyLine(d, k) ==
    LET S == NonEmptyLineStarts(d)
    IN  TextLine(d, CHOOSE p \in S : Cardinality({q \in S : q < p}) = k - 1)

\* The last non-empty line of the text is "250 OK", and its line break has
\* arrived.
FinalLineIs250OK(d) ==
    LET S == NonEmptyLineStarts(d)
    IN  /\ S # {}
        /\ LET p == CHOOSE x \in S : \A y \in S : y <= x
           IN  TextLine(d, p) = OK250 /\ LineEnd(d, p) < Len(d)

\* The status code of the reply, the first three characters of its first
\* non-empty line, is 250.
FirstLineHasCode250(d) ==
    /\ NonEmptyLineStarts(d) # {}
    /\ Prefix(NonEmptyLine(d, 1), 3) = <<"2", "5", "0">>

\* C9: a reply is delivered as a success (error null, code 250) exactly when
\* its status code is 250 and its final line is "250 OK".
C9_SuccessIffFinal250OK ==
    \A i \in Sends : \A c \in ReplyCalls(i) :
        (c.err = "none" /\ c.code = 250)
            <=> (FirstLineHasCode250(c.data) /\ FinalLineIs250OK(c.data))

\* A line that starts with 250 and one more character that is no line break.
Has250Prefix(line) ==
    /\ Len(line) >= 4
    /\ line[1] = "2" /\ line[2] = "5" /\ line[3] = "0"
    /\ line[4] # CR /\ line[4] # LF

\* C10, as claimed: the messages of a success are the non-empty lines of the
\* reply in order, each without its first four characters, whatever it starts
\* with; "250 OK" alone gives ["OK"]; messages is never empty.
C10_EveryLineStripped ==
    \A i \in Sends : \A c \in ReplyCalls(i) :
        c.err = "none" =>
            /\ Len(c.messages) = Cardinality(NonEmptyLineStarts(c.data))
            /\ \A k \in 1..Len(c.messages) :
                  c.messages[k] = Substr(NonEmptyLine(c.data, k), 4)
            /\ c.data = ReplyOK => c.messages = << <<"O", "K">> >>
            /\ c.messages # <<>>

\* C10, amended: the messages of a success are the non-empty lines of the text
\* the callback got, in order, a line that starts with 250 and one more
\* character (no line break) without these four characters and every other
\* line whole; "250 OK" alone gives ["OK"]; messages is never empty.
C10_Lines250Stripped ==
    \A i \in Sends : \A c \in ReplyCalls(i) :
        c.err = "none" =>
            /\ Len(c.messages) = Cardinality(NonEmptyLineStarts(c.data))
            /\ \A k \in 1..Len(c.messages) :
                  LET line == NonEmptyLine(c.data, k)
                  IN  c.messages[k] =
                          IF Has250Prefix(line) THEN Substr(line, 4) ELSE line
            /\ c.data = ReplyOK => c.messages = << <<"O", "K">> >>
            /\ c.messages # <<>>

C10_Witness ==
    \E i \in Sends : \E c \in ReplyCalls(i) :
        /\ c.err = "none"
        /\ c.data = <<"v">> \o CRLF \o ReplyOK
        /\ c.messages = << <<"v">>, <<"O", "K">> >>

\* This step is the caller issuing an operation of the given kind.
Issues(kind) ==
    /\ Len(ops') = Len(ops) + 1
    /\ ops'[Len(ops')].kind = kind

\* The callback of an operation, invoked once and without an error.
CalledBackOnce(o) == Len(o.cbs) = 1 /\ o.cbs[1].err = "none"

\* C11: disconnect called when no connection is installed invokes its
\* callback at once, without an error, writes nothing and leaves the
\* connection null.
C11_DisconnectWhenClosed ==
    [][(Issues("disconnect") /\ connection = 0) =>
          /\ CalledBackOnce(ops'[Len(ops')])
          /\ socks' = socks
          /\ connection' = 0]_vars

\* A connect, a graceful disconnect that completed, and a second graceful
\* disconnect that completed having written nothing.
C11_Witness ==
    /\ Len(ops) = 3
    /\ ops[1].kind = "connect"
    /\ ops[2].kind = "disconnect" /\ ~ops[2].flag /\ CalledBackOnce(ops[2])
    /\ ops[3].kind = "disconnect" /\ ~ops[3].flag /\ CalledBackOnce(ops[3])
    /\ Cardinality(QuitWrites(State)) = 1
    /\ connection = 0

\* Listener l is registered for 'end' on socket s.
AwaitsEnd(s, l) == \E n \in 1..Len(socks[s].onEnd) : socks[s].onEnd[n] = l

\* This step emits 'end' on socket s.
EndsNow(s) == socks[s].status # "ended" /\ socks'[s].status = "ended"

\* C12: a graceful disconnect (force not set) on an open connection writes
\* QUIT exactly once and returns without having invoked its callback; the
\* callback is invoked once, and only in the step in which 'end' is emitted
\* on the socket it was registered on.
C12_GracefulDisconnect ==
    [][/\ (/\ Issues("disconnect")
           /\ ~ops'[Len(ops')].flag
           /\ connection # 0
           /\ socks[connection].status = "open") =>
              /\ ops'[Len(ops')].cbs = <<>>
              /\ connection' = connection
              /\ socks' = [socks EXCEPT
                     ![connection].written = Append(@, QuitWrite),
                     ![connection].sent = @ + 1,
                     ![connection].onEnd =
                         Append(@, DisconnectListener(Len(ops')))]
       /\ \A k \in Ops :
             (/\ ops[k].kind = "disconnect"
              /\ ~ops[k].flag
              /\ ops'[k].cbs # ops[k].cbs) =>
                 /\ ops[k].cbs = <<>>
                 /\ CalledBackOnce(ops'[k])
                 /\ \E s \in Sockets :
                       EndsNow(s) /\ AwaitsEnd(s, DisconnectListener(k))]_vars

\* A connect and a graceful disconnect on its connection: QUIT was written,
\* the stream has ended and the callback has been invoked.
C12_Witness ==
    /\ Len(ops) = 2
    /\ ops[1].kind = "connect"
    /\ ops[2].kind = "disconnect" /\ ~ops[2].flag /\ CalledBackOnce(ops[2])
    /\ Len(socks) = 1
    /\ socks[1].status = "ended"
    /\ socks[1].written = <<AuthWrite, QuitWrite>>

\* Operation k is a forced disconnect that found a connection installed and
\* has returned.
ForcedOnConnection(k) ==
    /\ k \in Ops
    /\ ops[k].kind = "disconnect"
    /\ ops[k].flag
    /\ \/ ops[k].cbs # <<>>
       \/ \E s \in Sockets : AwaitsEnd(s, DisconnectListener(k))

Completed(k) == k \in Ops /\ ops[k].cbs # <<>> /\ connection = 0

\* C13: a forced disconnect on an installed connection completes (its callback
\* is invoked and the connection is reset to null) even if the peer never ends
\* its side of the stream.
C13_ForcedDisconnectCompletes ==
    \A k \in 1..MaxOps : ForcedOnConnection(k) ~> Completed(k)

\* The socket of a new instance after its first connect or sendCommand,
\* operation i: the listeners of connect, AUTHENTICATE written, nothing else.
FirstSocket(i) ==
    [NewSocket EXCEPT !.onError = <<ConnErrListener(i)>>,
                      !.onData = <<PipeDataListener, AuthListener(i)>>,
                      !.onEnd = <<PipeEndListener>>,
                      !.written = <<AuthWrite>>,
                      !.sent = 1]

\* The listeners of operations registered on socket record r.
ListenerOps(r) ==
    {l.op : l \in {r.onError[n] : n \in 1..Len(r.onError)}
                  \cup {r.onData[n] : n \in 1..Len(r.onData)}
                  \cup {r.onEnd[n] : n \in 1..Len(r.onEnd)}} \ {0}

\* C14: once a connection has closed ('end' seen, connection null), the next
\* connect or sendCommand creates a new transport that is as the first one of
\* a new instance, AUTHENTICATE being its first write; the transports of the
\* earlier connections have ended and never change again, and no operation
\* issued before the new transport was opened has a listener on it.
C14_FreshConnectionAfterClose ==
    [][/\ (/\ Issues("send") \/ Issues("connect")
           /\ connection = 0
           /\ socks # <<>>) =>
              /\ socks' = Append(socks, FirstSocket(Len(ops')))
              /\ connection' = Len(socks')
              /\ ops'[Len(ops')].cbs = <<>>
       /\ \A s \in 1..(Len(socks') - 1) :
             /\ socks'[s].status = "ended"
             /\ s < Len(socks) => socks'[s] = socks[s]
       /\ \A s \in 1..Len(socks') :
             \A k \in ListenerOps(socks'[s]) :
                \A j \in 1..Len(ops') : ops'[j].opened = s => j <= k]_vars

\* A second connection, opened by a sendCommand after the first connection
\* closed, on which that command was written and answered.
C14_Witness ==
    /\ Len(socks) = 2
    /\ socks[1].status = "ended"
    /\ \E i \in Sends :
          /\ ops[i].opened = 2
          /\ ops[i].wrote = 2
          /\ socks[2].written[1] = AuthWrite
          /\ CalledBackOnce(ops[i])

\* C15: connect called while a connection is installed creates no transport,
\* writes nothing, registers no listener and invokes its callback at once,
\* without an error, with the installed connection.
C15_ConnectIdempotent ==
    [][(Issues("connect") /\ connection # 0) =>
          /\ socks' = socks
          /\ connection' = connection
          /\ \A k \in Ops : ops'[k] = ops[k]
          /\ CalledBackOnce(ops'[Len(ops')])
          /\ ops'[Len(ops')].cbs[1].arg = connection]_vars

\* Two connects in a row: the second opened nothing, was handed the first
\* one's connection, and AUTHENTICATE was written once.
C15_Witness ==
    /\ Len(ops) = 2
    /\ ops[1].kind = "connect" /\ ops[1].opened = 1
    /\ ops[2].kind = "connect" /\ ops[2].opened = 0
    /\ CalledBackOnce(ops[2])
    /\ ops[2].cbs[1].arg = 1
    /\ Len(socks) = 1
    /\ socks[1].written = <<AuthWrite>>

\* The setPersistent calls before and after operation i.
SetsBefore(i) == {k \in Ops : k < i /\ ops[k].kind = "setPersistent"}
SetsAfter(i) == {k \in Ops : k > i /\ ops[k].kind = "setPersistent"}

Highest(S) == CHOOSE k \in S : \A j \in S : j <= k
Lowest(S) == CHOOSE k \in S : \A j \in S : k <= j

\* opts.persistent when operation i was called: the value of the last
\* setPersistent before it; without one, the value before the first
\* setPersistent after it (each call changes the value); else the value now.
PersistentAtCall(i) ==
    IF SetsBefore(i) # {} THEN ops[Highest(SetsBefore(i))].flag
    ELSE IF SetsAfter(i) # {} THEN ~ops[Lowest(SetsAfter(i))].flag
    ELSE persistent

\* Operation i is a sendCommand that found an authenticated connection
\* installed, so that its command was written in the call, and whose reply
\* listener has run on an installed connection.
WrittenAtCallAndReplied(i) ==
    /\ ops[i].opened = 0
    /\ ops[i].wrote # 0
    /\ ops[i].authAtWrite = "ok"
    /\ ops[i].replied
    /\ ops[i].connAtReply # 0

\* C16: whether a command closes the connection after its reply is decided by
\* the value persistent had when the command was written; a setPersistent
\* made while the command waits for its reply does not change it (stated for
\* a sendCommand that is the only one on the instance).
C16_InFlightUnaffected ==
    \A i \in Sends :
        (Sends = {i} /\ WrittenAtCallAndReplied(i)) =>
            (ops[i].quitAtReply <=> (~ops[i].flag /\ ~PersistentAtCall(i)))

\* This step emits 'error' on socket s.
FailsNow(s) == socks[s].status # "dead" /\ socks'[s].status = "dead"

\* The AUTHENTICATE writes made on socket record r.
AuthWrites(r) == {n \in 1..Len(r.written) : r.written[n] = AuthWrite}

\* The callback was invoked once, with the error that wraps a socket error.
ConnErrorOnce(o) == Len(o.cbs) = 1 /\ o.cbs[1].err = "conn"

\* C17: a socket error before the answer to AUTHENTICATE invokes the callback
\* of the operation that opened the socket, once and with the wrapped error;
\* it is not invoked again; the error step creates no socket and writes
\* nothing, sockets are created only in calls of the caller, and AUTHENTICATE
\* is written once on each.
C17_ConnErrorReportedOnce ==
    [][/\ \A s \in Sockets :
             (FailsNow(s) /\ socks[s].auth = "none") =>
                 /\ Len(socks') = Len(socks)
                 /\ \A r \in Sockets : socks'[r].written = socks[r].written
                 /\ \A i \in Ops :
                       ops[i].opened = s =>
                           ops[i].cbs = <<>> /\ ConnErrorOnce(ops'[i])
       /\ \A i \in 1..Len(ops') :
             (/\ ops'[i].opened # 0
              /\ socks'[ops'[i].opened].status = "dead"
              /\ socks'[ops'[i].opened].auth = "none") =>
                 ConnErrorOnce(ops'[i])
       /\ Len(socks') > Len(socks) =>
             /\ Len(socks') = Len(socks) + 1
             /\ Issues("connect") \/ Issues("send")
       /\ \A s \in 1..Len(socks') : AuthWrites(socks'[s]) = {1}]_vars

\* The socket a connect opened failed before AUTHENTICATE was answered and
\* the caller has the error; a later call opened nothing.
C17_Witness ==
    /\ Len(ops) = 2
    /\ ops[1].kind = "connect"
    /\ ops[1].opened = 1
    /\ socks[1].status = "dead"
    /\ socks[1].auth = "none"
    /\ ConnErrorOnce(ops[1])
    /\ Len(socks) = 1

\* The place of operation i's command among the writes on its socket.
Pos(i) ==
    CHOOSE n \in 1..Len(socks[ops[i].wrote].written) :
        socks[ops[i].wrote].written[n] = CommandWrite(i)

\* The caller kept to one sendCommand at a time on a kept-open connection:
\* persistent is and was true, every call is a sendCommand on the one
\* connection, and each but the first was made, and its command written, after
\* the reply listener of the one before had run and invoked its callback.
OneAtATime ==
    /\ persistent
    /\ Sends = Ops
    /\ Len(socks) <= 1
    /\ \A i \in Ops \ {1} :
          /\ ops[i - 1].replied
          /\ ops[i - 1].cbs # <<>>
          /\ ops[i].wrote # 0
          /\ Pos(i) > ops[i - 1].wlenAtReply

\* The server's complete replies to a command.
CompleteReplies(i) == {Concat(r) : r \in RepliesTo(CommandWrite(i))}

\* C18: with one sendCommand at a time on a kept-open connection, the data a
\* reply listener is given is a complete reply of the server to its command,
\* which the server has answered by then, however the reply is chunked.
C18_OwnCompleteReply ==
    OneAtATime =>
        \A i \in Sends :
            ops[i].replied =>
                /\ socks[ops[i].wrote].answered >= Pos(i)
                /\ ops[i].data \in CompleteReplies(i)

\* Operation k is a sendCommand whose command was written on a socket that
\* ended or failed before its reply listener ran.
ReplyLost(k) ==
    /\ k \in Sends
    /\ ops[k].wrote # 0
    /\ ~ops[k].replied
    /\ ~Alive(ops[k].wrote)

CalledBack(k) == k \in Ops /\ ops[k].cbs # <<>>
CalledBackWithError(k) == k \in Ops /\ \E c \in Calls(k) : c.err # "none"

\* C19: a sendCommand whose stream ends or fails after its command was written
\* and before its reply arrived has its callback invoked with an error in the
\* end, and every sendCommand has its callback invoked in the end.
C19_NoFailureSwallowed ==
    \A k \in 1..MaxOps :
        /\ ReplyLost(k) ~> CalledBackWithError(k)
        /\ (k \in Sends) ~> CalledBack(k)

\* C20: the callback of a sendCommand is invoked at most once, whatever
\* 'data', 'error' and 'end' events its socket emits.
C20_CallbackAtMostOnce ==
    \A i \in Sends : Len(ops[i].cbs) <= 1

=============================================================================
